---- MODULE Spec2Model ----
(***************************************************************************)
(* rustc-cfg: the `rustc --print cfg` parser of src/src/lib.rs.            *)
(*                                                                         *)
(* One call of Cfg::new is modelled as a state machine: the toolchain      *)
(* process is run, its exit status is tested, one of its streams is        *)
(* decoded, the lines of stdout are folded into the eight accumulators     *)
(* and the record is assembled.  Text is a sequence of one-character       *)
(* strings, a byte stream is a sequence of byte tokens.  A panic is an     *)
(* outcome of the call of its own, next to Ok(..) and Err(()).             *)
(* The lookup of the RUSTC environment variable only selects which         *)
(* executable answers; the answer itself is the nondeterministic input.    *)
(***************************************************************************)
EXTENDS Integers, Sequences, FiniteSets, TLC

(* ---------------------------------------------------------------------- *)
(* Bounds                                                                 *)
(* ---------------------------------------------------------------------- *)

\* number of additional lines inserted into a complete toolchain output
MaxExtra == 2

(* ---------------------------------------------------------------------- *)
(* Characters, keys                                                       *)
(* ---------------------------------------------------------------------- *)

QUOTE == "\""
EQ == "="
NL == "\n"
CR == "\r"
\* the grave accent (U+0060), which a string of this notation cannot hold
BQ == "U+0060"

\* the string literals of the match arms
KeyChars ==
  [ target_os            |-> <<"t", "a", "r", "g", "e", "t", "_", "o", "s">>,
    target_family        |-> <<"t", "a", "r", "g", "e", "t", "_", "f", "a", "m", "i", "l", "y">>,
    target_arch          |-> <<"t", "a", "r", "g", "e", "t", "_", "a", "r", "c", "h">>,
    target_endian        |-> <<"t", "a", "r", "g", "e", "t", "_", "e", "n", "d", "i", "a", "n">>,
    target_pointer_width |-> <<"t", "a", "r", "g", "e", "t", "_", "p", "o", "i", "n", "t", "e", "r", "_", "w", "i", "d", "t", "h">>,
    target_env           |-> <<"t", "a", "r", "g", "e", "t", "_", "e", "n", "v">>,
    target_has_atomic    |-> <<"t", "a", "r", "g", "e", "t", "_", "h", "a", "s", "_", "a", "t", "o", "m", "i", "c">>,
    target_feature       |-> <<"t", "a", "r", "g", "e", "t", "_", "f", "e", "a", "t", "u", "r", "e">> ]

\* the String fields of Cfg, in the order of the struct expression
SingleKeys ==
  << "target_os", "target_family", "target_arch", "target_endian",
     "target_pointer_width", "target_env" >>

\* the Vec<String> fields of Cfg
MultiKeys == { "target_has_atomic", "target_feature" }

SingleKeySet == { SingleKeys[n] : n \in 1..Len(SingleKeys) }

(* ---------------------------------------------------------------------- *)
(* Library functions the parser calls                                     *)
(* ---------------------------------------------------------------------- *)

\* index of the first occurrence of c in s, 0 when there is none
RECURSIVE FindFrom(_, _, _)
FindFrom(s, c, n) ==
  IF n > Len(s) THEN 0
  ELSE IF s[n] = c THEN n
  ELSE FindFrom(s, c, n + 1)

\* str::split(c): the pieces between all occurrences of c
RECURSIVE Split(_, _)
Split(s, c) ==
  LET n == FindFrom(s, c, 1)
  IN IF n = 0 THEN << s >>
     ELSE << SubSeq(s, 1, n - 1) >> \o Split(SubSeq(s, n + 1, Len(s)), c)

\* str::trim_left_matches(c)
RECURSIVE TrimLeft(_, _)
TrimLeft(s, c) ==
  IF s # << >> /\ s[1] = c THEN TrimLeft(Tail(s), c) ELSE s

\* str::trim_right_matches(c)
RECURSIVE TrimRight(_, _)
TrimRight(s, c) ==
  IF s # << >> /\ s[Len(s)] = c THEN TrimRight(SubSeq(s, 1, Len(s) - 1), c) ELSE s

\* a trim that takes one quote from each end, and only when both are there
TrimOnePair(s, c) ==
  IF Len(s) >= 2 /\ s[1] = c /\ s[Len(s)] = c THEN SubSeq(s, 2, Len(s) - 1) ELSE s

\* str::trim_matches(c)
TrimMatches(s, c) == TrimRight(TrimLeft(s, c), c)

\* one line of str::lines(): a carriage return before the line feed is dropped
StripCR(s) ==
  IF s # << >> /\ s[Len(s)] = CR THEN SubSeq(s, 1, Len(s) - 1) ELSE s

\* str::lines(): split at every line feed, no empty piece after the last one
Lines(text) ==
  LET pieces == Split(text, NL)
      kept == IF pieces[Len(pieces)] = << >>
              THEN SubSeq(pieces, 1, Len(pieces) - 1)
              ELSE pieces
  IN [ n \in 1..Len(kept) |-> StripCR(kept[n]) ]

\* str::contains(pat)
Contains(s, pat) ==
  \E n \in 1..(Len(s) - Len(pat) + 1) : SubSeq(s, n, n + Len(pat) - 1) = pat

\* byte tokens that are not ASCII: a two-byte lead, a continuation byte and
\* a byte no UTF-8 text contains
Lead2 == { "xC3" }
Cont == { "xA9" }
Never == { "xFF" }

\* the character a two-byte sequence encodes
Utf8Char(b1, b2) == "U+00E9"

\* String::from_utf8: Ok(text) or Err.  A lead byte needs its continuation
\* byte, a continuation byte its lead; each sequence decodes to one character
FromUtf8(bytes) ==
  LET valid == \A n \in 1..Len(bytes) :
                 /\ bytes[n] \notin Never
                 /\ bytes[n] \in Lead2 => (n < Len(bytes) /\ bytes[n + 1] \in Cont)
                 /\ bytes[n] \in Cont => (n > 1 /\ bytes[n - 1] \in Lead2)
      first == SelectSeq([ n \in 1..Len(bytes) |-> n ], LAMBDA n : bytes[n] \notin Cont)
  IN IF valid
     THEN [ ok |-> TRUE,
            v |-> [ k \in 1..Len(first) |->
                      IF bytes[first[k]] \in Lead2
                      THEN Utf8Char(bytes[first[k]], bytes[first[k] + 1])
                      ELSE bytes[first[k]] ] ]
     ELSE [ ok |-> FALSE, v |-> << >> ]

\* a test of the status that takes every exit code for a success
ExitedWithCode(status) == status >= 0

\* ExitStatus::success
Success(status) == status = 0

(* ---------------------------------------------------------------------- *)
(* Values of the call                                                     *)
(* ---------------------------------------------------------------------- *)

\* Result<String, ()> of one accumulator
ErrUnit == [ ok |-> FALSE, v |-> << >> ]
Ok(v) == [ ok |-> TRUE, v |-> v ]

\* the () of Err(()): no text is equal to it
Unit == << "()" >>

\* the accumulators after lines 97-104
InitFields ==
  [ target_os |-> ErrUnit, target_family |-> ErrUnit, target_arch |-> ErrUnit,
    target_endian |-> ErrUnit, target_pointer_width |-> ErrUnit,
    target_env |-> ErrUnit, target_has_atomic |-> << >>, target_feature |-> << >> ]

\* placeholder of the record in an outcome that carries none
NoCfg ==
  [ target_os |-> << >>, target_family |-> << >>, target_arch |-> << >>,
    target_endian |-> << >>, target_pointer_width |-> << >>,
    target_env |-> << >>, target_has_atomic |-> << >>, target_feature |-> << >> ]

\* the three ways the call ends
ReturnOk(cfg) == [ tag |-> "Ok", cfg |-> cfg, payload |-> << >>, msg |-> "" ]
ReturnErr == [ tag |-> "Err", cfg |-> NoCfg, payload |-> Unit, msg |-> "" ]
Panic(msg) == [ tag |-> "Panic", cfg |-> NoCfg, payload |-> << >>, msg |-> msg ]
Running == [ tag |-> "Running", cfg |-> NoCfg, payload |-> << >>, msg |-> "" ]

\* an unwrap that falls back to the empty value instead of panicking
UnwrapOrDefault(r, expr) == [ panics |-> FALSE, v |-> r.v, msg |-> "" ]

\* u!(e): the value of Ok, a panic with the text of the expression otherwise
u(r, expr) ==
  IF r.ok THEN [ panics |-> FALSE, v |-> r.v, msg |-> "" ]
  ELSE [ panics |-> TRUE, v |-> << >>, msg |-> expr ]

\* the pattern of line 89
TooOld == << "u", "n", "k", "n", "o", "w", "n", " ", "p", "r", "i", "n", "t", " ", "r", "e", "q", "u", "e", "s", "t", " ", BQ, "c", "f", "g", BQ >>

\* the message of the panic! of line 90 (its grave accents written as ')
TooOldMsg == "rustc is too old, '--print cfg' is not available"

(* ---------------------------------------------------------------------- *)
(* The body of the loop and the struct expression                         *)
(* ---------------------------------------------------------------------- *)

\* a comparison that overlooks blanks before the key
MatchesTrimmed(key, lit) == TrimLeft(key, " ") = lit

\* a match arm: the key is compared with the literal as it stands
Matches(key, lit) == key = lit

\* an assignment that keeps the first value of a key
AssignOnce(old, value) == IF old.ok THEN old ELSE Ok(value)

\* `target_x = Ok(..)`: the assignment replaces what the accumulator held
Assign(old, value) == Ok(value)

\* a push that skips a value the vector already holds
PushNew(vec, value) ==
  IF \E n \in 1..Len(vec) : vec[n] = value THEN vec ELSE Append(vec, value)

\* Vec::push
Push(vec, value) == Append(vec, value)

\* lines 107-125: one entry of spec.lines()
ProcessEntry(f, entry) ==
  LET parts == Split(entry, EQ)
  IN IF Len(parts) < 2 THEN f
     ELSE LET key == parts[1]
              value == TrimMatches(parts[2], QUOTE)
          IN CASE Matches(key, KeyChars.target_os) ->
                    [ f EXCEPT !.target_os = Assign(@, value) ]
               [] Matches(key, KeyChars.target_family) ->
                    [ f EXCEPT !.target_family = Assign(@, value) ]
               [] Matches(key, KeyChars.target_arch) ->
                    [ f EXCEPT !.target_arch = Assign(@, value) ]
               [] Matches(key, KeyChars.target_endian) ->
                    [ f EXCEPT !.target_endian = Assign(@, value) ]
               [] Matches(key, KeyChars.target_pointer_width) ->
                    [ f EXCEPT !.target_pointer_width = Assign(@, value) ]
               [] Matches(key, KeyChars.target_env) ->
                    [ f EXCEPT !.target_env = Assign(@, value) ]
               [] Matches(key, KeyChars.target_has_atomic) ->
                    [ f EXCEPT !.target_has_atomic = Push(@, value) ]
               [] Matches(key, KeyChars.target_feature) ->
                    [ f EXCEPT !.target_feature = Push(@, value) ]
               [] OTHER -> f

\* the first u!(..) of lines 129-134 that panics, 0 when none does
RECURSIVE FirstErr(_, _)
FirstErr(f, n) ==
  IF n > Len(SingleKeys) THEN 0
  ELSE IF u(f[SingleKeys[n]], SingleKeys[n]).panics THEN n
  ELSE FirstErr(f, n + 1)

\* a struct expression that takes the empty string for a field without a line
AssembleOrDefault(f) ==
  ReturnOk([ k \in DOMAIN f |-> IF k \in MultiKeys THEN f[k] ELSE f[k].v ])

\* lines 128-138: Ok(Cfg { .. })
Assemble(f) ==
  LET n == FirstErr(f, 1)
  IN IF n # 0 THEN Panic(u(f[SingleKeys[n]], SingleKeys[n]).msg)
     ELSE ReturnOk(
            [ target_os |-> u(f.target_os, "target_os").v,
              target_family |-> u(f.target_family, "target_family").v,
              target_arch |-> u(f.target_arch, "target_arch").v,
              target_endian |-> u(f.target_endian, "target_endian").v,
              target_pointer_width |-> u(f.target_pointer_width, "target_pointer_width").v,
              target_env |-> u(f.target_env, "target_env").v,
              target_has_atomic |-> f.target_has_atomic,
              target_feature |-> f.target_feature ])

(* ---------------------------------------------------------------------- *)
(* What the toolchain may answer                                          *)
(* ---------------------------------------------------------------------- *)

\* the raw values a toolchain prints for an ARM Linux target
CanonValue ==
  [ target_os            |-> <<"\"", "l", "i", "n", "u", "x", "\"">>,
    target_family        |-> <<"\"", "u", "n", "i", "x", "\"">>,
    target_arch          |-> <<"\"", "a", "r", "m", "\"">>,
    target_endian        |-> <<"\"", "l", "i", "t", "t", "l", "e", "\"">>,
    target_pointer_width |-> <<"\"", "3", "2", "\"">>,
    target_env           |-> <<"\"", "\"">> ]

KeyValue(key, raw) == key \o << EQ >> \o raw

CanonLine(k) == KeyValue(KeyChars[k], CanonValue[k])

\* one line for each String field, in the order of the struct
Base == [ n \in 1..Len(SingleKeys) |-> CanonLine(SingleKeys[n]) ]

\* lines a toolchain may print besides: a repeated key (its value quoted at
\* one end only), repeatable keys, values with = or with further quotes, a
\* bare key, a key of a later version
ExtraLines ==
  { KeyValue(KeyChars.target_os, <<"b", "\"">>),
    KeyValue(KeyChars.target_feature, <<"\"", "a", "\"">>),
    KeyValue(KeyChars.target_feature, <<"\"", "a", "=", "b", "\"">>),
    KeyValue(KeyChars.target_feature, <<"\"", "\"", "x", "\"", "\"">>),
    KeyValue(KeyChars.target_has_atomic, <<"\"", "8", "\"">>),
    <<"u", "n", "i", "x">>,
    KeyValue(<<"t", "a", "r", "g", "e", "t", "_", "v", "e", "n", "d", "o", "r">>,
             <<"\"", "a", "p", "p", "l", "e", "\"">>) }

\* ls with line l put after its first p lines
InsertAt(ls, p, l) == SubSeq(ls, 1, p) \o << l >> \o SubSeq(ls, p + 1, Len(ls))

\* ls without its p-th line
RemoveAt(ls, p) == SubSeq(ls, 1, p - 1) \o SubSeq(ls, p + 1, Len(ls))

\* Base with up to n of the ExtraLines put before it, in its middle and
\* after it: xs[1..a], first half, xs[a+1..b], second half, xs[b+1..]
WithExtras(n) ==
  LET half == Len(Base) \div 2
  IN UNION { { SubSeq(xs, 1, ab[1]) \o SubSeq(Base, 1, half) \o SubSeq(xs, ab[1] + 1, ab[2])
                 \o SubSeq(Base, half + 1, Len(Base)) \o SubSeq(xs, ab[2] + 1, Len(xs)) :
               ab \in { c \in (0..Len(xs)) \X (0..Len(xs)) : c[1] <= c[2] } } :
             xs \in UNION { [ 1..k -> ExtraLines ] : k \in 0..n } }

\* the lines of Base in every order, with and without the target_family line
Reordered ==
  LET all == { [ n \in 1..Len(Base) |-> Base[p[n]] ] : p \in Permutations(1..Len(Base)) }
  IN all \cup { SelectSeq(ls, LAMBDA l : l # CanonLine("target_family")) : ls \in all }

\* every selection of the lines of Base
Partial ==
  { SelectSeq(Base, LAMBDA l : \E k \in S : l = CanonLine(k)) : S \in SUBSET SingleKeySet }

\* the text of the lines ls: eol after each line, after the last one if final
RECURSIVE Unlines(_, _, _)
Unlines(ls, eol, final) ==
  IF ls = << >> THEN << >>
  ELSE IF Len(ls) = 1 THEN ls[1] \o (IF final THEN eol ELSE << >>)
  ELSE ls[1] \o eol \o Unlines(Tail(ls), eol, final)

BaseText == Unlines(Base, << NL >>, TRUE)

\* what a successful toolchain writes to stdout
Stdouts ==
  { Unlines(ls, << NL >>, TRUE) : ls \in WithExtras(MaxExtra) \cup Reordered }
  \cup { Unlines(ls, << NL >>, FALSE) : ls \in Partial }
  \cup { Unlines(ls, << CR, NL >>, TRUE) : ls \in Partial }
  \cup { << NL >> \o BaseText \o << NL, NL >>,
         BaseText \o << "xFF" >>,
         BaseText \o << "xC3" >>,
         BaseText \o KeyValue(KeyChars.target_os, << QUOTE, "xC3", "xA9", QUOTE >>) }

\* what a failing toolchain writes to stderr
Stderrs ==
  { << >>,
    <<"e", "r", "r", "o", "r", ":", " ", "u", "n", "s", "u", "p", "p", "o", "r", "t", "e", "d", " ", "t", "a", "r", "g", "e", "t">>,
    <<"e", "r", "r", "o", "r", ":", " ">> \o TooOld \o << NL >>,
    <<"e", "r", "r", "o", "r", "xFF">> }

\* std::process::Output of a process that was started
Outputs ==
  [ status : { 0 }, stdout : Stdouts, stderr : { << >> } ]
  \cup [ status : { 0 }, stdout : { BaseText }, stderr : Stderrs ]
  \cup [ status : { 1 }, stdout : { << >>, BaseText }, stderr : Stderrs ]

NoOutput == [ status |-> 0, stdout |-> << >>, stderr |-> << >> ]

(* ---------------------------------------------------------------------- *)
(* One call of Cfg::new                                                   *)
(* ---------------------------------------------------------------------- *)

VARIABLES
  pc,        \* the place of the call in new_
  spawned,   \* whether Command::output() returned Ok
  output,    \* the Output it returned
  spec,      \* the text of stdout
  entries,   \* spec.lines()
  i,         \* the number of entries the loop has taken
  fields,    \* the eight accumulators
  result     \* how the call ended

vars == << pc, spawned, output, spec, entries, i, fields, result >>

Init ==
  /\ pc = "start"
  /\ spawned = FALSE
  /\ output = NoOutput
  /\ spec = << >>
  /\ entries = << >>
  /\ i = 0
  /\ fields = InitFields
  /\ result = Running

\* lines 82-86, Err: the process cannot be started and u! panics
SpawnFails ==
  /\ pc = "start"
  /\ pc' = "done"
  /\ result' = Panic(u(ErrUnit, "Command::new(..).output()").msg)
  /\ UNCHANGED << spawned, output, spec, entries, i, fields >>

\* lines 82-86, Ok: the process ran and its streams were captured
SpawnOutputs ==
  /\ pc = "start"
  /\ \E o \in Outputs : output' = o
  /\ spawned' = TRUE
  /\ pc' = "status"
  /\ UNCHANGED << spec, entries, i, fields, result >>

\* line 88
CheckStatus ==
  /\ pc = "status"
  /\ pc' = IF Success(output.status) THEN "stdout" ELSE "stderr"
  /\ UNCHANGED << spawned, output, spec, entries, i, fields, result >>

\* what lines 89-93 end the call with
Failure(stderr) ==
  LET text == u(FromUtf8(stderr), "String::from_utf8(output.stderr)")
  IN IF text.panics THEN Panic(text.msg)
     ELSE IF Contains(text.v, TooOld) THEN Panic(TooOldMsg)
     ELSE ReturnErr

\* lines 89-93
DecodeStderr ==
  /\ pc = "stderr"
  /\ result' = Failure(output.stderr)
  /\ pc' = "done"
  /\ UNCHANGED << spawned, output, spec, entries, i, fields >>

\* lines 96-104
DecodeStdout ==
  /\ pc = "stdout"
  /\ LET text == u(FromUtf8(output.stdout), "String::from_utf8(output.stdout)")
     IN IF text.panics
        THEN /\ result' = Panic(text.msg)
             /\ pc' = "done"
             /\ UNCHANGED << spec, entries, fields >>
        ELSE /\ spec' = text.v
             /\ entries' = Lines(text.v)
             /\ fields' = InitFields
             /\ pc' = "loop"
             /\ UNCHANGED result
  /\ UNCHANGED << spawned, output, i >>

\* lines 106-126, one iteration
LoopStep ==
  /\ pc = "loop"
  /\ i < Len(entries)
  /\ fields' = ProcessEntry(fields, entries[i + 1])
  /\ i' = i + 1
  /\ UNCHANGED << pc, spawned, output, spec, entries, result >>

\* lines 128-138, after the last iteration
Return ==
  /\ pc = "loop"
  /\ i = Len(entries)
  /\ result' = Assemble(fields)
  /\ pc' = "done"
  /\ UNCHANGED << spawned, output, spec, entries, i, fields >>

Next ==
  \/ SpawnFails
  \/ SpawnOutputs
  \/ CheckStatus
  \/ DecodeStderr
  \/ DecodeStdout
  \/ LoopStep
  \/ Return

Spec == Init /\ [][Next]_vars

TypeOK ==
  /\ pc \in { "start", "status", "stderr", "stdout", "loop", "done" }
  /\ result.tag \in { "Running", "Ok", "Err", "Panic" }
  /\ (pc = "done") = (result.tag # "Running")
  /\ i \in 0..Len(entries)

(* ---------------------------------------------------------------------- *)
(* The toolchain's output as the properties read it                       *)
(* ---------------------------------------------------------------------- *)

HasEq(l) == \E n \in 1..Len(l) : l[n] = EQ

\* the place of the first = of a line that has one
FirstEq(l) == CHOOSE n \in 1..Len(l) : l[n] = EQ /\ \A m \in 1..(n - 1) : l[m] # EQ

\* the text before the first =
KeyOf(l) == SubSeq(l, 1, FirstEq(l) - 1)

\* the whole remainder of the line after the first =
AfterFirstEq(l) == SubSeq(l, FirstEq(l) + 1, Len(l))

\* the remainder up to the next =, or up to the end of the line
UpToNextEq(l) ==
  LET rest == AfterFirstEq(l)
      stops == { n \in 1..Len(rest) : rest[n] = EQ }
  IN IF stops = { } THEN rest
     ELSE SubSeq(rest, 1, (CHOOSE n \in stops : \A m \in stops : n <= m) - 1)

\* raw without the quote characters it begins with and ends with
Unquoted(raw) ==
  LET inner == { n \in 1..Len(raw) : raw[n] # QUOTE }
  IN IF inner = { } THEN << >>
     ELSE SubSeq(raw, CHOOSE n \in inner : \A m \in inner : n <= m,
                      CHOOSE n \in inner : \A m \in inner : n >= m)

\* raw without one pair of enclosing quote characters, when it has one
WithoutOuterPair(raw) ==
  IF Len(raw) >= 2 /\ raw[1] = QUOTE /\ raw[Len(raw)] = QUOTE
  THEN SubSeq(raw, 2, Len(raw) - 1)
  ELSE raw

\* the places of the key=value lines of key k, in the order of the output
LinesOf(k) ==
  SelectSeq([ n \in 1..Len(entries) |-> n ],
            LAMBDA n : HasEq(entries[n]) /\ KeyOf(entries[n]) = KeyChars[k])

Present(k) == LinesOf(k) # << >>

\* the call ended, and it had a successful output with text on stdout to parse
Parsed ==
  /\ pc = "done"
  /\ spawned
  /\ output.status = 0
  /\ FromUtf8(output.stdout).ok

\* the call ended after the toolchain exited with a non-zero status
Refused == pc = "done" /\ spawned /\ output.status # 0

\* pat occurs in s
Occurs(pat, s) ==
  \E n \in 0..(Len(s) - Len(pat)) : \A k \in 1..Len(pat) : s[n + k] = pat[k]

\* the first String field, in the order of the struct, that has no line
FirstAbsent ==
  CHOOSE k \in SingleKeySet :
    /\ ~Present(k)
    /\ \A n \in 1..Len(SingleKeys) :
         SingleKeys[n] = k => \A m \in 1..(n - 1) : Present(SingleKeys[m])

(* ---------------------------------------------------------------------- *)
(* C1                                                                     *)
(* ---------------------------------------------------------------------- *)

C2_FamilyOptional ==
  ( /\ Parsed
    /\ \A k \in SingleKeySet \ { "target_family" } : Present(k)
    /\ ~Present("target_family")
    /\ \A n \in 1..Len(entries) :
         HasEq(entries[n]) =>
           KeyOf(entries[n]) # <<"t", "a", "r", "g", "e", "t", "_", "v", "e", "n", "d", "o", "r">> )
  => result.tag = "Ok"

(* ---------------------------------------------------------------------- *)
(* C3                                                                     *)
(* ---------------------------------------------------------------------- *)

QuotedLine(l) ==
  /\ HasEq(l)
  /\ Len(AfterFirstEq(l)) >= 2
  /\ AfterFirstEq(l)[1] = QUOTE
  /\ AfterFirstEq(l)[Len(AfterFirstEq(l))] = QUOTE

\* the text between the quotes of a key="value" line
Between(l) == SubSeq(AfterFirstEq(l), 2, Len(AfterFirstEq(l)) - 1)

RequiredKeys == SingleKeySet \ { "target_family" }

\* C5: an output made only of key="value" lines that has each of target_os,
\* target_arch, target_endian, target_pointer_width and target_env exactly
\* once, in any order, is parsed into a record, and each of these fields is
\* the text between the quotes of its line.
C5_RequiredOnceSucceeds ==
  ( /\ Parsed
    /\ \A n \in 1..Len(entries) : QuotedLine(entries[n])
    /\ \A k \in RequiredKeys : Len(LinesOf(k)) = 1 )
  => /\ result.tag = "Ok"
     /\ \A k \in RequiredKeys : result.cfg[k] = Between(entries[LinesOf(k)[1]])

(* ---------------------------------------------------------------------- *)
(* C6                                                                     *)
(* ---------------------------------------------------------------------- *)

\* the value the parser takes from a key=value line
ValueOf(l) == Unquoted(UpToNextEq(l))

\* C6: a record's target_feature, and likewise its target_has_atomic, is the
\* sequence of the values of the lines of that key in the order of the
\* output: as long as there are such lines, with repeated values kept, and
\* empty when there is none; whether the parse yields a record does not
\* depend on these lines.
C6_MultiValuedInOrder ==
  Parsed =>
    /\ (\A k \in SingleKeySet : Present(k)) => result.tag = "Ok"
    /\ result.tag = "Ok" =>
         \A k \in MultiKeys :
           /\ Len(result.cfg[k]) = Len(LinesOf(k))
           /\ \A j \in 1..Len(LinesOf(k)) :
                result.cfg[k][j] = ValueOf(entries[LinesOf(k)[j]])

C6_Witness ==
  /\ Parsed
  /\ result.tag = "Ok"
  /\ Len(result.cfg.target_feature) = 2
  /\ result.cfg.target_feature[1] = result.cfg.target_feature[2]
  /\ LinesOf("target_feature")[2] > LinesOf("target_feature")[1] + 1
  /\ result.cfg.target_has_atomic = << >>

(* ---------------------------------------------------------------------- *)
(* C7                                                                     *)
(* ---------------------------------------------------------------------- *)

\* C7: a String field of the record is the value of the last line of its
\* key, however many lines of that key come before it; a parse fails only
\* when some key has no line at all.
C7_LastWins ==
  Parsed =>
    /\ result.tag = "Panic" => ~Present(result.msg)
    /\ result.tag = "Ok" =>
         \A k \in SingleKeySet :
           result.cfg[k] = ValueOf(entries[LinesOf(k)[Len(LinesOf(k))]])

C7_Witness ==
  /\ Parsed
  /\ result.tag = "Ok"
  /\ Len(LinesOf("target_os")) = 3
  /\ LinesOf("target_os")[3] > LinesOf("target_os")[2] + 1
  /\ ValueOf(entries[LinesOf("target_os")[1]]) # ValueOf(entries[LinesOf("target_os")[3]])
  /\ result.cfg.target_os = <<"b">>

(* ---------------------------------------------------------------------- *)
(* C8                                                                     *)
(* ---------------------------------------------------------------------- *)

\* the loop of lines 106-126 over all the lines ls
RECURSIVE Fold(_, _)
Fold(f, ls) == IF ls = << >> THEN f ELSE Fold(ProcessEntry(f, Head(ls)), Tail(ls))

\* lines 97-138 for the lines ls
Outcome(ls) == Assemble(Fold(InitFields, ls))

\* a line without =, or with a key that is none of the eight
Ignorable(l) ==
  ~HasEq(l) \/ KeyOf(l) \notin { KeyChars[k] : k \in SingleKeySet \cup MultiKeys }

\* lines of both kinds
IgnorableLines ==
  { << >>,
    <<"u", "n", "i", "x">>,
    KeyValue(<<"t", "a", "r", "g", "e", "t", "_", "v", "e", "n", "d", "o", "r">>,
             <<"\"", "a", "p", "p", "l", "e", "\"">>),
    KeyValue(<<"T", "a", "r", "g", "e", "t", "_", "o", "s">>, <<"\"", "z", "\"">>),
    KeyValue(<<" ", "t", "a", "r", "g", "e", "t", "_", "o", "s">>, <<"\"", "z", "\"">>) }

\* C8: the outcome of a parse, record or failure, is the outcome for the
\* output without any one of its lines that has no = or has an unrecognized
\* key, and the outcome for the output with one more such line in any place.
C8_IgnoredLines ==
  Parsed =>
    /\ \A p \in 1..Len(entries) :
         Ignorable(entries[p]) => result = Outcome(RemoveAt(entries, p))
    /\ \A p \in 0..Len(entries) : \A l \in IgnorableLines :
         Ignorable(l) /\ Outcome(InsertAt(entries, p, l)) = result

C8_Witness ==
  /\ Parsed
  /\ result.tag = "Ok"
  /\ \E p \in 1..Len(entries), q \in 1..Len(entries) :
       /\ p < q /\ q < Len(entries)
       /\ ~HasEq(entries[p])
       /\ HasEq(entries[q]) /\ Ignorable(entries[q])

(* ---------------------------------------------------------------------- *)
(* C9                                                                     *)
(* ---------------------------------------------------------------------- *)

\* C9: the value stored for a line of a recognized key is the whole
\* remainder of the line after its first =, without the quotes around it.
C9_SplitAtFirstEq ==
  (Parsed /\ result.tag = "Ok") =>
    /\ \A k \in MultiKeys : \A j \in 1..Len(LinesOf(k)) :
         j <= Len(result.cfg[k]) =>
           result.cfg[k][j] = Unquoted(AfterFirstEq(entries[LinesOf(k)[j]]))
    /\ \A k \in SingleKeySet :
         result.cfg[k] = Unquoted(AfterFirstEq(entries[LinesOf(k)[Len(LinesOf(k))]]))

(* ---------------------------------------------------------------------- *)
(* C10                                                                    *)
(* ---------------------------------------------------------------------- *)

\* the loop is about to take a line of a recognized key
AtKeyLine(k) ==
  /\ pc = "loop"
  /\ i < Len(entries)
  /\ HasEq(entries[i + 1])
  /\ KeyOf(entries[i + 1]) = KeyChars[k]

\* what the step of the loop has stored for key k
Stored(k, f) == IF k \in MultiKeys THEN f[k][Len(f[k])] ELSE f[k].v

\* C10, as claimed: the value stored is the raw value without its one pair
\* of enclosing quotes, and the raw value itself when it has no such pair.
C10_OuterPairOnly ==
  [][ \A k \in SingleKeySet \cup MultiKeys :
        AtKeyLine(k) => Stored(k, fields') = WithoutOuterPair(UpToNextEq(entries[i + 1])) ]_vars

\* C10, amended: the value stored is the raw value without all the quote
\* characters it begins with and all the quote characters it ends with,
\* whether or not they pair up; quote characters further inside are kept.
C10_AllEdgeQuotes ==
  [][ \A k \in SingleKeySet \cup MultiKeys :
        AtKeyLine(k) => Stored(k, fields') = Unquoted(UpToNextEq(entries[i + 1])) ]_vars

C10_Witness ==
  /\ pc = "loop"
  /\ i > 0
  /\ entries[i] = KeyValue(KeyChars.target_feature, <<"\"", "\"", "x", "\"", "\"">>)
  /\ fields.target_feature = << <<"x">> >>

====
